---- MODULE Spec2Model ----
(***************************************************************************)
(* Model of server.js: an Express application over a SQLite database       *)
(* (tables recipes, ingredients, instructions) and an upload directory.    *)
(*                                                                         *)
(* Every request is a short chain of steps on Node's single event loop:    *)
(* the route handler runs (validation, Date.now(), db.run/db.get/db.all    *)
(* queues a statement), later the statement executes inside SQLite, later  *)
(* still the statement's callback runs and sends the response.  Steps of   *)
(* different requests interleave freely between these points.              *)
(***************************************************************************)
EXTENDS Integers, Sequences, FiniteSets

\* ------------------------------------------------------------------ bounds
MaxInflight == 2        \* requests that may be in flight at once
MaxRecipes == 2         \* recipe rows ever inserted
MaxIngredients == 2     \* ingredient rows ever inserted
MaxInstructions == 3    \* instruction rows ever inserted
MaxClock == 2           \* largest value Date.now() takes

Slots == 1..MaxInflight
\* values of the :id path parameter that requests use
RecipeIds == 1..MaxRecipes
IngredientIds == 1..MaxIngredients
InstructionIds == 1..MaxInstructions

\* ------------------------------------------------------- JavaScript values
\* A value of JavaScript: t is its kind, s the characters of a string, and a
\* number (or the 0/1 of a boolean) is n * 10^e.  A number is kept in one
\* form only: e = 0 when it is an integer of at most nine digits, and
\* otherwise n is no multiple of 10.  The doubles that are no such product
\* have a kind of their own: NaN, Infinity (n is its sign) and NegZero (-0).
Undefined == [t |-> "undefined", s |-> <<>>, n |-> 0, e |-> 0]
Null == [t |-> "null", s |-> <<>>, n |-> 0, e |-> 0]
NaN == [t |-> "NaN", s |-> <<>>, n |-> 0, e |-> 0]
NegZero == [t |-> "-0", s |-> <<>>, n |-> 0, e |-> 0]
Infinity(sign) == [t |-> "Infinity", s |-> <<>>, n |-> sign, e |-> 0]
Str(s) == [t |-> "string", s |-> s, n |-> 0, e |-> 0]
Num(n) == [t |-> "number", s |-> <<>>, n |-> n, e |-> 0]
Bool(b) == [t |-> "boolean", s |-> <<>>, n |-> IF b THEN 1 ELSE 0, e |-> 0]

\* JavaScript truthiness, the meaning of !x and of x ? a : b
Truthy(v) ==
  CASE v.t = "string" -> v.s # <<>>
    [] v.t = "number" -> v.n # 0
    [] v.t = "boolean" -> v.n = 1
    [] v.t = "Infinity" -> TRUE
    [] OTHER -> FALSE

\* WhiteSpace and LineTerminator of ECMAScript, the characters that trim()
\* and Number() strip: TAB, LF, VT, FF, CR, SP, NBSP, U+1680 and U+FEFF.  The
\* others (U+2000..U+200A, U+2028, U+2029, U+202F, U+205F, U+3000) cannot be
\* written in a string of a module, so no string of this model holds one.
IsWhiteSpace(c) ==
  c \in {"\t", "\n", "", "\f", "\r", " ", " ", " ", "﻿"}

RECURSIVE TrimStart(_)
TrimStart(s) ==
  IF s # <<>> /\ IsWhiteSpace(Head(s)) THEN TrimStart(Tail(s)) ELSE s

RECURSIVE TrimEnd(_)
TrimEnd(s) ==
  IF s # <<>> /\ IsWhiteSpace(s[Len(s)])
    THEN TrimEnd(SubSeq(s, 1, Len(s) - 1))
    ELSE s

\* a trim that forgets the end of the string
TrimStartOnly(s) == TrimStart(s)

\* String.prototype.trim
Trim(s) == TrimEnd(TrimStart(s))

\* The guard  !x || !x.trim()  of the handlers, for a body field x:
\*   "blank"  the guard is true (the handler answers 400)
\*   "throws" x is truthy but has no trim method (TypeError, Express answers 500)
\*   "ok"     the guard is false
BlankCheck(v) ==
  IF ~Truthy(v) THEN "blank"
  ELSE IF v.t # "string" THEN "throws"
  ELSE IF Trim(v.s) = <<>> THEN "blank"
  ELSE "ok"

\* the value of c as a digit (of a hexadecimal literal at most), -1 for
\* every other character
DigitValue(c) ==
  CASE c = "0" -> 0 [] c = "1" -> 1 [] c = "2" -> 2 [] c = "3" -> 3
    [] c = "4" -> 4 [] c = "5" -> 5 [] c = "6" -> 6 [] c = "7" -> 7
    [] c = "8" -> 8 [] c = "9" -> 9
    [] c \in {"a", "A"} -> 10 [] c \in {"b", "B"} -> 11
    [] c \in {"c", "C"} -> 12 [] c \in {"d", "D"} -> 13
    [] c \in {"e", "E"} -> 14 [] c \in {"f", "F"} -> 15
    [] OTHER -> -1

\* s is one digit or more of the base
AllDigits(s, base) ==
  /\ s # <<>>
  /\ \A i \in 1..Len(s) : DigitValue(s[i]) >= 0 /\ DigitValue(s[i]) < base

RECURSIVE StripLeadingZeros(_)
StripLeadingZeros(s) ==
  IF s # <<>> /\ Head(s) = "0" THEN StripLeadingZeros(Tail(s)) ELSE s

RECURSIVE StripTrailingZeros(_)
StripTrailingZeros(s) ==
  IF s # <<>> /\ s[Len(s)] = "0"
    THEN StripTrailingZeros(SubSeq(s, 1, Len(s) - 1))
    ELSE s

RECURSIVE ParseDigits(_, _)
\* value of a string of digits of the base; -2 when it has more than nine
\* decimal digits
ParseDigits(s, base) ==
  IF s = <<>> THEN 0
  ELSE LET r == ParseDigits(SubSeq(s, 1, Len(s) - 1), base)
           d == DigitValue(s[Len(s)])
       IN IF r < 0 \/ r > (999999999 - d) \div base THEN -2 ELSE base * r + d

\* index of the first character of s that is in cs, 0 when there is none
IndexOf(s, cs) ==
  IF \E i \in 1..Len(s) : s[i] \in cs
    THEN CHOOSE i \in 1..Len(s) :
           s[i] \in cs /\ \A j \in 1..(i - 1) : s[j] \notin cs
    ELSE 0

\* 0b, 0o and 0x literals: base of the literal s, 0 when s has no such prefix
RadixOf(s) ==
  IF Len(s) < 2 \/ s[1] # "0" THEN 0
  ELSE CASE s[2] \in {"b", "B"} -> 2
         [] s[2] \in {"o", "O"} -> 8
         [] s[2] \in {"x", "X"} -> 16
         [] OTHER -> 0

\* the exponent part of a decimal literal, the characters after e or E: an
\* optional sign and digits.  Its value, cut off at 99999 (far beyond the
\* exponents of doubles).
ExponentOk(x) ==
  AllDigits(IF x # <<>> /\ Head(x) \in {"+", "-"} THEN Tail(x) ELSE x, 10)

ExponentOf(x) ==
  LET signed == x # <<>> /\ Head(x) \in {"+", "-"}
      d == StripLeadingZeros(IF signed THEN Tail(x) ELSE x)
      v == IF Len(d) > 5 THEN 99999 ELSE ParseDigits(d, 10)
  IN IF signed /\ Head(x) = "-" THEN -v ELSE v

\* the first nine digits of d, as a number (d filled up with zeros)
FirstNine(d) ==
  ParseDigits([i \in 1..9 |-> IF i <= Len(d) THEN d[i] ELSE "0"], 10)

\* The double nearest to  sign * 0.d * 10^(x + Len(d))  for digits d without
\* zeros at either end: Infinity from 2^1024 - 2^970 = 1.797693134862315807e308
\* on, zero below 1e-324.  A number of more than nine significant digits, or
\* one below 1e-313 where doubles thin out, has no value here: it is beyond
\* the integers of the model checker.
Double(sign, d, x) ==
  LET a == x + Len(d) - 1
  IN CASE d = <<>> \/ a < -324 -> IF sign < 0 THEN NegZero ELSE Num(0)
       [] d # <<>> /\ a > 308 -> Infinity(sign)
       [] d # <<>> /\ a = 308 /\ FirstNine(d) >= 179769314 -> Infinity(sign)
       [] /\ d # <<>> /\ Len(d) <= 9 /\ a >= -313
          /\ a < 308 \/ FirstNine(d) <= 179769313 ->
            IF x >= 0 /\ Len(d) + x <= 9
              THEN Num(sign * ParseDigits(d, 10) * 10^x)
              ELSE [t |-> "number", s |-> <<>>,
                    n |-> sign * ParseDigits(d, 10), e |-> x]

\* StrDecimalLiteral: an optional sign, then Infinity or digits with an
\* optional point and exponent part
DecimalLiteral(s) ==
  LET signed == s # <<>> /\ Head(s) \in {"+", "-"}
      sign == IF signed /\ Head(s) = "-" THEN -1 ELSE 1
      u == IF signed THEN Tail(s) ELSE s
      ex == IndexOf(u, {"e", "E"})
      m == IF ex = 0 THEN u ELSE SubSeq(u, 1, ex - 1)
      x == IF ex = 0 THEN <<>> ELSE SubSeq(u, ex + 1, Len(u))
      pt == IndexOf(m, {"."})
      int == IF pt = 0 THEN m ELSE SubSeq(m, 1, pt - 1)
      frac == IF pt = 0 THEN <<>> ELSE SubSeq(m, pt + 1, Len(m))
      wellFormed ==
        /\ ex # 0 => ExponentOk(x)
        /\ int # <<>> \/ frac # <<>>
        /\ int # <<>> => AllDigits(int, 10)
        /\ frac # <<>> => AllDigits(frac, 10)
      d == StripLeadingZeros(int \o frac)
  IN IF u = <<"I", "n", "f", "i", "n", "i", "t", "y">> THEN Infinity(sign)
     ELSE IF ~wellFormed THEN NaN
     ELSE Double(sign, StripTrailingZeros(d),
                 (IF ex = 0 THEN 0 ELSE ExponentOf(x)) - Len(frac)
                   + (Len(d) - Len(StripTrailingZeros(d))))

\* StringToNumber: the string without the whitespace at its ends is empty
\* (0), a 0b, 0o or 0x literal without sign, or a decimal literal; NaN
\* otherwise
StringToNumber(s) ==
  LET u == Trim(s)
      base == RadixOf(u)
      digits == SubSeq(u, 3, Len(u))
  IN IF u = <<>> THEN Num(0)
     ELSE IF base = 0 THEN DecimalLiteral(u)
     ELSE IF ~AllDigits(digits, base) THEN NaN
     ELSE CASE ParseDigits(StripLeadingZeros(digits), base) >= 0 ->
                 Num(ParseDigits(StripLeadingZeros(digits), base))

\* Number(x)
ToNumber(v) ==
  CASE v.t = "string" -> StringToNumber(v.s)
    [] v.t = "boolean" -> Num(v.n)
    [] v.t = "null" -> Num(0)
    [] v.t = "undefined" -> NaN
    [] OTHER -> v

\* Number.isNaN
IsNaN(v) == v.t = "NaN"

\* ------------------------------------------------------------ request inputs
TitleInputs ==
  {Undefined, Str(<<>>), Str(<<"\n", "\t">>), Str(<<" ", "a", "\r">>), Str(<<"b">>), Num(5)}
FavoriteInputs == {Undefined, Bool(TRUE), Bool(FALSE), Str(<<"a">>)}
NameInputs == {Undefined, Str(<<"\n">>), Str(<<" ", "a">>), Num(5)}
QuantityInputs ==
  {Undefined, Str(<<"a">>), Str(<<"\n", "-", "0">>), Str(<<"-", "1", ".", "5">>), Num(1)}
UnitInputs == {Str(<<"\t">>), Str(<<"b", " ">>), Num(5)}
TextInputs == {Undefined, Str(<<"\f">>), Str(<<"a", " ">>), Num(5)}
\* file.originalname of an uploaded photo; "" when the form has no photo field
OriginalNames == {"", "p.jpg"}

\* --------------------------------------------------------------------- state
VARIABLES
  recipes,        \* rows of table recipes
  recipeSeq,      \* sqlite_sequence entry of recipes (AUTOINCREMENT)
  ingredients,    \* rows of table ingredients
  ingredientSeq,
  instructions,   \* rows of table instructions
  instructionSeq,
  uploads,        \* names of the files in UPLOADS_DIR
  clock,          \* Date.now()
  inflight,       \* per slot: the request being served and where it stands
  issued,         \* history: recipe ids handed out so far
  lastToggle,     \* history: per recipe, what the latest favorite toggle of it asked for
  run,            \* history: per recipe id, length of the serial run of instruction creates
  overlap         \* history: per slot, whether another create inserted an instruction
                  \* for the recipe of the create in the slot after that create read
                  \* the maximum

tables == <<recipes, recipeSeq, ingredients, ingredientSeq, instructions, instructionSeq>>
history == <<issued, lastToggle, run, overlap>>
vars == <<tables, uploads, clock, inflight, history>>

Idle == [kind |-> "idle", pc |-> "idle"]
\* recipes.photo is NULL
NoPhoto == [now |-> 0, originalname |-> ""]

IsIdle(s) == inflight[s].kind = "idle"
\* a request arrives: it is served in the first free slot
Arrives(s) == IsIdle(s) /\ \A o \in Slots : o < s => ~IsIdle(o)
At(s, kind, pc) == inflight[s].kind = kind /\ inflight[s].pc = pc
\* slots whose request is of this kind
Pending(kind) == {s \in Slots : inflight[s].kind = kind}

Init ==
  /\ recipes = {}
  /\ recipeSeq = 0
  /\ ingredients = {}
  /\ ingredientSeq = 0
  /\ instructions = {}
  /\ instructionSeq = 0
  /\ uploads = {}
  /\ clock = 1
  /\ inflight = [s \in Slots |-> Idle]
  /\ issued = {}
  /\ lastToggle = [r \in RecipeIds |-> "none"]
  /\ run = [r \in RecipeIds |-> 0]
  /\ overlap = [s \in Slots |-> FALSE]

\* time passes
Tick ==
  /\ clock < MaxClock
  /\ clock' = clock + 1
  /\ UNCHANGED <<tables, uploads, inflight, history>>

\* a response on its way to the client
Sent(kind, status, body) ==
  [kind |-> kind, pc |-> "sent", status |-> status, body |-> body]

\* a handler answers at once, without touching storage
Reject(s, kind, status, message) ==
  /\ inflight' = [inflight EXCEPT ![s] = Sent(kind, status, [message |-> message])]
  /\ UNCHANGED <<tables, uploads, clock, history>>

\* the TypeError of calling .trim on a value that has none, answered by Express
Throws(s, kind) == Reject(s, kind, 500, "TypeError")

\* a handler queues a statement and returns
Queue(s, req) ==
  /\ inflight' = [inflight EXCEPT ![s] = req]
  /\ UNCHANGED <<tables, uploads, clock, history>>

\* a callback sends the response
Respond(s, kind, status, body) ==
  inflight' = [inflight EXCEPT ![s] = Sent(kind, status, body)]

\* res.json({ success: true })
Success == [success |-> TRUE]

\* the client has the response and the request is over
Receive(s) ==
  /\ inflight[s].pc = "sent"
  /\ inflight' = [inflight EXCEPT ![s] = Idle]
  /\ UNCHANGED <<tables, uploads, clock, history>>

\* ------------------------------------------------------------------- recipes

\* POST /recipes, the handler
PostRecipe(s, title) ==
  /\ Arrives(s)
  /\ LET c == BlankCheck(title) IN
     CASE c = "blank" -> Reject(s, "postRecipe", 400, "Title is required")
       [] c = "throws" -> Throws(s, "postRecipe")
       [] OTHER ->
            /\ recipeSeq + Cardinality(Pending("postRecipe")) < MaxRecipes
            /\ Queue(s, [kind |-> "postRecipe", pc |-> "run",
                         title |-> Trim(title.s), now |-> clock])

\* INSERT INTO recipes (title, created_at, updated_at)
PostRecipeRun(s) ==
  /\ At(s, "postRecipe", "run")
  /\ LET q == inflight[s]
         id == recipeSeq + 1
     IN /\ recipes' = recipes \cup
             {[id |-> id, title |-> q.title, photo |-> NoPhoto, is_favorite |-> 0,
               created_at |-> q.now, updated_at |-> q.now]}
        /\ recipeSeq' = id
        /\ issued' = issued \cup {id}
        /\ inflight' = [inflight EXCEPT ![s] =
             [kind |-> "postRecipe", pc |-> "cb", title |-> q.title, lastID |-> id]]
  /\ UNCHANGED <<ingredients, ingredientSeq, instructions, instructionSeq,
                 uploads, clock, lastToggle, run, overlap>>

\* the callback of the insert
PostRecipeCb(s) ==
  /\ At(s, "postRecipe", "cb")
  /\ Respond(s, "postRecipe", 200,
             [id |-> inflight[s].lastID, title |-> inflight[s].title])
  /\ UNCHANGED <<tables, uploads, clock, history>>


\* PUT /recipes/:id, the handler
PutRecipe(s, id, title) ==
  /\ Arrives(s)
  /\ LET c == BlankCheck(title) IN
     CASE c = "blank" -> Reject(s, "putRecipe", 400, "Title is required")
       [] c = "throws" -> Throws(s, "putRecipe")
       [] OTHER ->
            Queue(s, [kind |-> "putRecipe", pc |-> "run", id |-> id,
                      title |-> Trim(title.s), now |-> clock])

\* UPDATE recipes SET title = ?, updated_at = ? WHERE id = ?
PutRecipeRun(s) ==
  /\ At(s, "putRecipe", "run")
  /\ LET q == inflight[s] IN
       /\ recipes' = {IF r.id = q.id
                        THEN [r EXCEPT !.title = q.title, !.updated_at = q.now]
                        ELSE r : r \in recipes}
       /\ inflight' = [inflight EXCEPT ![s] =
            [kind |-> "putRecipe", pc |-> "cb", id |-> q.id,
             changes |-> Cardinality({r \in recipes : r.id = q.id})]]
  /\ UNCHANGED <<recipeSeq, ingredients, ingredientSeq, instructions, instructionSeq,
                 uploads, clock, history>>

PutRecipeCb(s) ==
  /\ At(s, "putRecipe", "cb")
  /\ Respond(s, "putRecipe", 200, Success)
  /\ UNCHANGED <<tables, uploads, clock, history>>

\* PATCH /recipes/:id/favorite, the handler
PatchFavorite(s, id, isFavorite) ==
  /\ Arrives(s)
  /\ Queue(s, [kind |-> "patchFavorite", pc |-> "run", id |-> id,
               is_favorite |-> IF Truthy(isFavorite) THEN 1 ELSE 0, now |-> clock])

\* UPDATE recipes SET is_favorite = ?, updated_at = ? WHERE id = ?
PatchFavoriteRun(s) ==
  /\ At(s, "patchFavorite", "run")
  /\ LET q == inflight[s] IN
       /\ recipes' = {IF r.id = q.id
                        THEN [r EXCEPT !.is_favorite = q.is_favorite, !.updated_at = q.now]
                        ELSE r : r \in recipes}
       /\ lastToggle' =
            IF \E r \in recipes : r.id = q.id
              THEN [lastToggle EXCEPT ![q.id] = IF q.is_favorite = 1 THEN "on" ELSE "off"]
              ELSE lastToggle
       /\ inflight' = [inflight EXCEPT ![s] =
            [kind |-> "patchFavorite", pc |-> "cb", id |-> q.id,
             changes |-> Cardinality({r \in recipes : r.id = q.id})]]
  /\ UNCHANGED <<recipeSeq, ingredients, ingredientSeq, instructions, instructionSeq,
                 uploads, clock, issued, run, overlap>>

\* res.status(404).json({ message: "Not found" })
NotFound == [message |-> "Not found"]

\* a callback that tells a recipe that is not there from one that is
PatchFavoriteCbOrNotFound(s) ==
  /\ At(s, "patchFavorite", "cb")
  /\ IF inflight[s].changes = 0
       THEN Respond(s, "patchFavorite", 404, NotFound)
       ELSE Respond(s, "patchFavorite", 200, Success)
  /\ UNCHANGED <<tables, uploads, clock, history>>

PatchFavoriteCb(s) ==
  /\ At(s, "patchFavorite", "cb")
  /\ Respond(s, "patchFavorite", 200, Success)
  /\ UNCHANGED <<tables, uploads, clock, history>>

\* SQLite enforces FOREIGN KEY clauses, ON DELETE CASCADE among them, only on a
\* connection that has run PRAGMA foreign_keys = ON.  The connection is opened
\* and used without it.
ForeignKeys == FALSE

\* rows of a child table that survive the deletion of recipe id
AfterRecipeDelete(rows, id) ==
  IF ForeignKeys THEN {x \in rows : x.recipe_id # id} ELSE rows

\* DELETE /recipes/:id, the handler
DeleteRecipe(s, id) ==
  /\ Arrives(s)
  /\ Queue(s, [kind |-> "deleteRecipe", pc |-> "run", id |-> id])

\* DELETE FROM recipes WHERE id = ?
DeleteRecipeRun(s) ==
  /\ At(s, "deleteRecipe", "run")
  /\ LET q == inflight[s]
         hit == {r \in recipes : r.id = q.id}
     IN /\ recipes' = recipes \ hit
        /\ ingredients' = IF hit = {} THEN ingredients
                          ELSE AfterRecipeDelete(ingredients, q.id)
        /\ instructions' = IF hit = {} THEN instructions
                           ELSE AfterRecipeDelete(instructions, q.id)
        /\ inflight' = [inflight EXCEPT ![s] =
             [kind |-> "deleteRecipe", pc |-> "cb", id |-> q.id,
              changes |-> Cardinality(hit)]]
  /\ UNCHANGED <<recipeSeq, ingredientSeq, instructionSeq, uploads, clock, history>>

DeleteRecipeCb(s) ==
  /\ At(s, "deleteRecipe", "cb")
  /\ Respond(s, "deleteRecipe", 200, Success)
  /\ UNCHANGED <<tables, uploads, clock, history>>

\* the orders in which SELECT ... ORDER BY may return rows: every arrangement
\* of the rows in which before(x, y) never has y ahead of x (rows that tie
\* come in any order)
Ordered(rows, before(_, _)) ==
  {f \in [1..Cardinality(rows) -> rows] :
     /\ \A i, j \in DOMAIN f : i # j => f[i] # f[j]
     /\ \A i, j \in DOMAIN f : i < j => ~before(f[j], f[i])}

\* GET /recipes/favorites, the handler
GetFavorites(s) ==
  /\ Arrives(s)
  /\ Queue(s, [kind |-> "getFavorites", pc |-> "all"])

\* the favorites in the order of GET /recipes, newest id first
SelectFavoritesById ==
  Ordered({r \in recipes : r.is_favorite = 1}, LAMBDA x, y : x.id > y.id)

\* SELECT * FROM recipes WHERE is_favorite = 1 ORDER BY updated_at DESC
SelectFavorites ==
  Ordered({r \in recipes : r.is_favorite = 1},
          LAMBDA x, y : x.updated_at > y.updated_at)

GetFavoritesAll(s) ==
  /\ At(s, "getFavorites", "all")
  /\ \E rows \in SelectFavorites :
       inflight' = [inflight EXCEPT ![s] =
         [kind |-> "getFavorites", pc |-> "cb", rows |-> rows]]
  /\ UNCHANGED <<tables, uploads, clock, history>>

GetFavoritesCb(s) ==
  /\ At(s, "getFavorites", "cb")
  /\ Respond(s, "getFavorites", 200, inflight[s].rows)
  /\ UNCHANGED <<tables, uploads, clock, history>>

\* a storage that keeps the file in memory and writes nothing
MemoryStorage(file) == uploads

\* multer.diskStorage: the upload directory once the file is written
DiskStorage(file) == uploads \cup {file}

\* POST /recipes/:id/photo, upload.single("photo"): multer names the file
\* `${Date.now()}-${file.originalname}` and writes it to UPLOADS_DIR
UploadSingle(s, id, originalname) ==
  /\ Arrives(s)
  /\ LET file == IF originalname = "" THEN NoPhoto
                 ELSE [now |-> clock, originalname |-> originalname]
     IN /\ uploads' = IF originalname = "" THEN uploads ELSE DiskStorage(file)
        /\ inflight' = [inflight EXCEPT ![s] =
             [kind |-> "postPhoto", pc |-> "handler", id |-> id, filename |-> file]]
  /\ UNCHANGED <<tables, clock, history>>

\* POST /recipes/:id/photo, the handler
PostPhoto(s) ==
  /\ At(s, "postPhoto", "handler")
  /\ LET q == inflight[s] IN
       IF q.filename = NoPhoto
         THEN Reject(s, "postPhoto", 400, "No file uploaded")
         ELSE Queue(s, [kind |-> "postPhoto", pc |-> "run", id |-> q.id,
                        filename |-> q.filename, now |-> clock])

\* UPDATE recipes SET photo = ?, updated_at = ? WHERE id = ?
PostPhotoRun(s) ==
  /\ At(s, "postPhoto", "run")
  /\ LET q == inflight[s] IN
       /\ recipes' = {IF r.id = q.id
                        THEN [r EXCEPT !.photo = q.filename, !.updated_at = q.now]
                        ELSE r : r \in recipes}
       /\ inflight' = [inflight EXCEPT ![s] =
            [kind |-> "postPhoto", pc |-> "cb", id |-> q.id, filename |-> q.filename,
             changes |-> Cardinality({r \in recipes : r.id = q.id})]]
  /\ UNCHANGED <<recipeSeq, ingredients, ingredientSeq, instructions, instructionSeq,
                 uploads, clock, history>>

PostPhotoCb(s) ==
  /\ At(s, "postPhoto", "cb")
  /\ Respond(s, "postPhoto", 200, [photo |-> inflight[s].filename])
  /\ UNCHANGED <<tables, uploads, clock, history>>


\* --------------------------------------------------------------- ingredients

\* whether an INSERT of a child row of recipe id passes the foreign key
ForeignKeyHolds(id) == ~ForeignKeys \/ \E r \in recipes : r.id = id

\* the checks with quantity looked at before name
QuantityCheckedFirst(name, quantity, unit) ==
  LET n == BlankCheck(name)
      u == BlankCheck(unit)
  IN CASE IsNaN(ToNumber(quantity)) -> "Ingredient quantity required"
       [] n = "blank" -> "Ingredient name required"
       [] n = "throws" -> "TypeError"
       [] u = "blank" -> "Ingredient unit required"
       [] u = "throws" -> "TypeError"
       [] OTHER -> "ok"

\* the three checks of the handler, in its order: the message of the first
\* that fails, "TypeError" when evaluating one throws, "ok" when all pass
IngredientCheck(name, quantity, unit) ==
  LET n == BlankCheck(name)
      u == BlankCheck(unit)
  IN CASE n = "blank" -> "Ingredient name required"
       [] n = "throws" -> "TypeError"
       [] IsNaN(ToNumber(quantity)) -> "Ingredient quantity required"
       [] u = "blank" -> "Ingredient unit required"
       [] u = "throws" -> "TypeError"
       [] OTHER -> "ok"

\* POST /recipes/:id/ingredients, the handler
PostIngredient(s, id, name, quantity, unit) ==
  /\ Arrives(s)
  /\ LET c == IngredientCheck(name, quantity, unit)
     IN CASE c = "TypeError" -> Throws(s, "postIngredient")
          [] c # "ok" -> Reject(s, "postIngredient", 400, c)
          [] OTHER ->
               /\ ingredientSeq + Cardinality(Pending("postIngredient")) < MaxIngredients
               /\ Queue(s, [kind |-> "postIngredient", pc |-> "run", id |-> id,
                            name |-> Trim(name.s), quantity |-> ToNumber(quantity),
                            unit |-> Trim(unit.s)])

\* the error of a statement that a constraint refuses
ConstraintError == [message |-> "SQLITE_CONSTRAINT"]

\* The value a REAL column keeps of a number bound to it: a double, but a
\* zero is kept without its sign (-0 is read back as 0).
StoredReal(v) == IF v = NegZero THEN Num(0) ELSE v

\* INSERT INTO ingredients (recipe_id, name, quantity, unit)
PostIngredientRun(s) ==
  /\ At(s, "postIngredient", "run")
  /\ LET q == inflight[s]
         id == ingredientSeq + 1
     IN IF ForeignKeyHolds(q.id)
          THEN /\ ingredients' = ingredients \cup
                    {[id |-> id, recipe_id |-> q.id, name |-> q.name,
                      quantity |-> StoredReal(q.quantity), unit |-> q.unit]}
               /\ ingredientSeq' = id
               /\ inflight' = [inflight EXCEPT ![s] =
                    [kind |-> "postIngredient", pc |-> "cb", id |-> q.id,
                     name |-> q.name, quantity |-> q.quantity, unit |-> q.unit,
                     err |-> FALSE, lastID |-> id]]
          ELSE /\ UNCHANGED <<ingredients, ingredientSeq>>
               /\ inflight' = [inflight EXCEPT ![s] =
                    [kind |-> "postIngredient", pc |-> "cb", id |-> q.id,
                     name |-> q.name, quantity |-> q.quantity, unit |-> q.unit,
                     err |-> TRUE, lastID |-> 0]]
  /\ UNCHANGED <<recipes, recipeSeq, instructions, instructionSeq,
                 uploads, clock, history>>

\* the callback of the insert
PostIngredientCb(s) ==
  /\ At(s, "postIngredient", "cb")
  /\ LET q == inflight[s] IN
       IF q.err
         THEN Respond(s, "postIngredient", 500, ConstraintError)
         ELSE Respond(s, "postIngredient", 200,
                      [id |-> q.lastID, recipe_id |-> q.id, name |-> q.name,
                       quantity |-> q.quantity, unit |-> q.unit])
  /\ UNCHANGED <<tables, uploads, clock, history>>

\* DELETE /ingredients/:id, the handler
DeleteIngredient(s, id) ==
  /\ Arrives(s)
  /\ Queue(s, [kind |-> "deleteIngredient", pc |-> "run", id |-> id])

\* DELETE FROM ingredients WHERE id = ?
DeleteIngredientRun(s) ==
  /\ At(s, "deleteIngredient", "run")
  /\ LET q == inflight[s]
         hit == {x \in ingredients : x.id = q.id}
     IN /\ ingredients' = ingredients \ hit
        /\ inflight' = [inflight EXCEPT ![s] =
             [kind |-> "deleteIngredient", pc |-> "cb", id |-> q.id,
              changes |-> Cardinality(hit)]]
  /\ UNCHANGED <<recipes, recipeSeq, ingredientSeq, instructions, instructionSeq,
                 uploads, clock, history>>

DeleteIngredientCb(s) ==
  /\ At(s, "deleteIngredient", "cb")
  /\ Respond(s, "deleteIngredient", 200, Success)
  /\ UNCHANGED <<tables, uploads, clock, history>>

\* SELECT * FROM ingredients WHERE recipe_id = ? ORDER BY id ASC
SelectIngredients(id) ==
  Ordered({x \in ingredients : x.recipe_id = id}, LAMBDA x, y : x.id < y.id)

\* GET /recipes/:id/ingredients, the handler
GetIngredients(s, id) ==
  /\ Arrives(s)
  /\ Queue(s, [kind |-> "getIngredients", pc |-> "all", id |-> id])

GetIngredientsAll(s) ==
  /\ At(s, "getIngredients", "all")
  /\ \E rows \in SelectIngredients(inflight[s].id) :
       inflight' = [inflight EXCEPT ![s] =
         [kind |-> "getIngredients", pc |-> "cb", id |-> inflight[s].id, rows |-> rows]]
  /\ UNCHANGED <<tables, uploads, clock, history>>

GetIngredientsCb(s) ==
  /\ At(s, "getIngredients", "cb")
  /\ Respond(s, "getIngredients", 200, inflight[s].rows)
  /\ UNCHANGED <<tables, uploads, clock, history>>

\* -------------------------------------------------------------- instructions

\* the requests for recipe id, other than that of slot s, that create an
\* instruction and stand at one of the places pcs
OtherCreates(s, id, pcs) ==
  {o \in Slots \ {s} : /\ inflight[o].kind = "postInstruction"
                       /\ inflight[o].pc \in pcs
                       /\ inflight[o].id = id}

CreatePcs == {"get", "getCb", "run", "cb"}

\* POST /recipes/:id/instructions, the handler
PostInstruction(s, id, text) ==
  /\ Arrives(s)
  /\ LET c == BlankCheck(text) IN
     CASE c = "blank" -> Reject(s, "postInstruction", 400, "Instruction text required")
       [] c = "throws" -> Throws(s, "postInstruction")
       [] OTHER ->
            /\ instructionSeq + Cardinality(Pending("postInstruction")) < MaxInstructions
            /\ inflight' = [inflight EXCEPT ![s] =
                 [kind |-> "postInstruction", pc |-> "get", id |-> id,
                  text |-> Trim(text.s)]]
            /\ run' = [run EXCEPT ![id] =
                 IF OtherCreates(s, id, CreatePcs) = {} THEN @ ELSE -1]
            /\ UNCHANGED <<tables, uploads, clock, issued, lastToggle, overlap>>

\* the maximum taken over the whole table, the WHERE clause forgotten
MaxStepAnyRecipe(id) ==
  LET steps == {x.step_number : x \in instructions}
  IN IF steps = {} THEN 0 ELSE CHOOSE m \in steps : \A n \in steps : n <= m

\* MIN in the place of MAX
MinStep(id) ==
  LET steps == {x.step_number : x \in {y \in instructions : y.recipe_id = id}}
  IN IF steps = {} THEN 0 ELSE CHOOSE m \in steps : \A n \in steps : m <= n

\* COALESCE(MAX(step_number), 0) over the instructions of recipe id
MaxStep(id) ==
  LET steps == {x.step_number : x \in {y \in instructions : y.recipe_id = id}}
  IN IF steps = {} THEN 0 ELSE CHOOSE m \in steps : \A n \in steps : n <= m

\* SELECT COALESCE(MAX(step_number), 0) AS maxStep FROM instructions WHERE recipe_id = ?
PostInstructionGet(s) ==
  /\ At(s, "postInstruction", "get")
  /\ LET q == inflight[s] IN
       /\ inflight' = [inflight EXCEPT ![s] =
            [kind |-> "postInstruction", pc |-> "getCb", id |-> q.id, text |-> q.text,
             maxStep |-> MaxStep(q.id)]]
       /\ overlap' = [overlap EXCEPT ![s] = FALSE]
  /\ UNCHANGED <<tables, uploads, clock, issued, lastToggle, run>>

\* the callback of the select: nextStep = row.maxStep + 1, then db.run
PostInstructionGetCb(s) ==
  /\ At(s, "postInstruction", "getCb")
  /\ LET q == inflight[s] IN
       Queue(s, [kind |-> "postInstruction", pc |-> "run", id |-> q.id, text |-> q.text,
                 nextStep |-> q.maxStep + 1])

\* INSERT INTO instructions (recipe_id, step_number, text)
PostInstructionRun(s) ==
  /\ At(s, "postInstruction", "run")
  /\ LET q == inflight[s]
         id == instructionSeq + 1
     IN IF ForeignKeyHolds(q.id)
          THEN /\ instructions' = instructions \cup
                    {[id |-> id, recipe_id |-> q.id, step_number |-> q.nextStep,
                      text |-> q.text]}
               /\ instructionSeq' = id
               /\ inflight' = [inflight EXCEPT ![s] =
                    [kind |-> "postInstruction", pc |-> "cb", id |-> q.id,
                     text |-> q.text, nextStep |-> q.nextStep,
                     err |-> FALSE, lastID |-> id]]
               /\ overlap' = [o \in Slots |->
                    overlap[o] \/ o \in OtherCreates(s, q.id, {"getCb", "run"})]
          ELSE /\ UNCHANGED <<instructions, instructionSeq, overlap>>
               /\ inflight' = [inflight EXCEPT ![s] =
                    [kind |-> "postInstruction", pc |-> "cb", id |-> q.id,
                     text |-> q.text, nextStep |-> q.nextStep,
                     err |-> TRUE, lastID |-> 0]]
  /\ UNCHANGED <<recipes, recipeSeq, ingredients, ingredientSeq,
                 uploads, clock, issued, lastToggle, run>>

\* the callback of the insert
PostInstructionCb(s) ==
  /\ At(s, "postInstruction", "cb")
  /\ LET q == inflight[s] IN
       /\ IF q.err
            THEN Respond(s, "postInstruction", 500, ConstraintError)
            ELSE Respond(s, "postInstruction", 200,
                         [id |-> q.lastID, recipe_id |-> q.id,
                          step_number |-> q.nextStep, text |-> q.text])
       /\ run' = [run EXCEPT ![q.id] = IF @ >= 0 /\ ~q.err THEN @ + 1 ELSE -1]
       /\ overlap' = [overlap EXCEPT ![s] = FALSE]
  /\ UNCHANGED <<tables, uploads, clock, issued, lastToggle>>

\* DELETE /instructions/:id, the handler
DeleteInstruction(s, id) ==
  /\ Arrives(s)
  /\ Queue(s, [kind |-> "deleteInstruction", pc |-> "run", id |-> id])

\* a deletion that also closes the gap it leaves
DeleteAndRenumber(id) ==
  {IF \E d \in instructions : /\ d.id = id
                              /\ d.recipe_id = x.recipe_id
                              /\ d.step_number < x.step_number
     THEN [x EXCEPT !.step_number = @ - 1]
     ELSE x : x \in {y \in instructions : y.id # id}}

\* the table after DELETE FROM instructions WHERE id = ?
DeleteFromInstructions(id) == {x \in instructions : x.id # id}

\* DELETE FROM instructions WHERE id = ?
DeleteInstructionRun(s) ==
  /\ At(s, "deleteInstruction", "run")
  /\ LET q == inflight[s]
         hit == {x \in instructions : x.id = q.id}
         left == DeleteFromInstructions(q.id)
     IN /\ instructions' = left
        /\ inflight' = [inflight EXCEPT ![s] =
             [kind |-> "deleteInstruction", pc |-> "cb", id |-> q.id,
              changes |-> Cardinality(hit)]]
        /\ run' = [r \in RecipeIds |->
             IF \A x \in hit : x.recipe_id # r THEN run[r]
             ELSE IF /\ \A x \in left : x.recipe_id # r
                     /\ OtherCreates(s, r, CreatePcs) = {}
               THEN 0
               ELSE -1]
  /\ UNCHANGED <<recipes, recipeSeq, ingredients, ingredientSeq, instructionSeq,
                 uploads, clock, issued, lastToggle, overlap>>

DeleteInstructionCb(s) ==
  /\ At(s, "deleteInstruction", "cb")
  /\ Respond(s, "deleteInstruction", 200, Success)
  /\ UNCHANGED <<tables, uploads, clock, history>>

\* SELECT * FROM instructions WHERE recipe_id = ? ORDER BY step_number ASC
SelectInstructions(id) ==
  Ordered({x \in instructions : x.recipe_id = id},
          LAMBDA x, y : x.step_number < y.step_number)

\* GET /recipes/:id/instructions, the handler
GetInstructions(s, id) ==
  /\ Arrives(s)
  /\ Queue(s, [kind |-> "getInstructions", pc |-> "all", id |-> id])

GetInstructionsAll(s) ==
  /\ At(s, "getInstructions", "all")
  /\ \E rows \in SelectInstructions(inflight[s].id) :
       inflight' = [inflight EXCEPT ![s] =
         [kind |-> "getInstructions", pc |-> "cb", id |-> inflight[s].id, rows |-> rows]]
  /\ UNCHANGED <<tables, uploads, clock, history>>

GetInstructionsCb(s) ==
  /\ At(s, "getInstructions", "cb")
  /\ Respond(s, "getInstructions", 200, inflight[s].rows)
  /\ UNCHANGED <<tables, uploads, clock, history>>

\* ------------------------------------------------------------ specifications

PostRecipeSteps(titles) ==
  \E s \in Slots :
    \/ \E title \in titles : PostRecipe(s, title)
    \/ PostRecipeRun(s)
    \/ PostRecipeCb(s)

PutRecipeSteps(titles) ==
  \E s \in Slots :
    \/ \E id \in RecipeIds, title \in titles : PutRecipe(s, id, title)
    \/ PutRecipeRun(s)
    \/ PutRecipeCb(s)

PatchFavoriteSteps ==
  \E s \in Slots :
    \/ \E id \in RecipeIds, isFavorite \in FavoriteInputs : PatchFavorite(s, id, isFavorite)
    \/ PatchFavoriteRun(s)
    \/ PatchFavoriteCb(s)

DeleteRecipeSteps ==
  \E s \in Slots :
    \/ \E id \in RecipeIds : DeleteRecipe(s, id)
    \/ DeleteRecipeRun(s)
    \/ DeleteRecipeCb(s)

GetFavoritesSteps ==
  \E s \in Slots :
    \/ GetFavorites(s)
    \/ GetFavoritesAll(s)
    \/ GetFavoritesCb(s)

PostPhotoSteps ==
  \E s \in Slots :
    \/ \E id \in RecipeIds, originalname \in OriginalNames : UploadSingle(s, id, originalname)
    \/ PostPhoto(s)
    \/ PostPhotoRun(s)
    \/ PostPhotoCb(s)

PostIngredientSteps(names, quantities, units) ==
  \E s \in Slots :
    \/ \E id \in RecipeIds, name \in names, quantity \in quantities,
          unit \in units : PostIngredient(s, id, name, quantity, unit)
    \/ PostIngredientRun(s)
    \/ PostIngredientCb(s)

DeleteIngredientSteps ==
  \E s \in Slots :
    \/ \E id \in IngredientIds : DeleteIngredient(s, id)
    \/ DeleteIngredientRun(s)
    \/ DeleteIngredientCb(s)

GetIngredientsSteps ==
  \E s \in Slots :
    \/ \E id \in RecipeIds : GetIngredients(s, id)
    \/ GetIngredientsAll(s)
    \/ GetIngredientsCb(s)

PostInstructionSteps(texts) ==
  \E s \in Slots :
    \/ \E id \in RecipeIds, text \in texts : PostInstruction(s, id, text)
    \/ PostInstructionGet(s)
    \/ PostInstructionGetCb(s)
    \/ PostInstructionRun(s)
    \/ PostInstructionCb(s)

DeleteInstructionSteps ==
  \E s \in Slots :
    \/ \E id \in InstructionIds : DeleteInstruction(s, id)
    \/ DeleteInstructionRun(s)
    \/ DeleteInstructionCb(s)

GetInstructionsSteps ==
  \E s \in Slots :
    \/ \E id \in RecipeIds : GetInstructions(s, id)
    \/ GetInstructionsAll(s)
    \/ GetInstructionsCb(s)

Received == \E s \in Slots : Receive(s)

\* the whole server
Next ==
  \/ Tick
  \/ Received
  \/ PostRecipeSteps(TitleInputs)
  \/ PutRecipeSteps(TitleInputs)
  \/ PatchFavoriteSteps
  \/ DeleteRecipeSteps
  \/ GetFavoritesSteps
  \/ PostPhotoSteps
  \/ PostIngredientSteps(NameInputs, QuantityInputs, UnitInputs)
  \/ DeleteIngredientSteps
  \/ GetIngredientsSteps
  \/ PostInstructionSteps(TextInputs)
  \/ DeleteInstructionSteps
  \/ GetInstructionsSteps

Spec == Init /\ [][Next]_vars

\* the clients use the recipe routes only
NextRecipes ==
  \/ Tick
  \/ Received
  \/ PostRecipeSteps(TitleInputs)
  \/ PutRecipeSteps(TitleInputs)
  \/ PatchFavoriteSteps
  \/ DeleteRecipeSteps
  \/ GetFavoritesSteps

SpecRecipes == Init /\ [][NextRecipes]_vars

\* one well-formed value of each body field
OneTitle == {Str(<<"b">>)}
OneName == {Str(<<" ", "a">>)}
OneQuantity == {Num(1)}
OneUnit == {Str(<<"b", " ">>)}
OneText == {Str(<<"a", " ">>)}

\* the clients create and delete recipes and upload photos
NextPhotos ==
  \/ Tick
  \/ Received
  \/ PostRecipeSteps(OneTitle)
  \/ DeleteRecipeSteps
  \/ PostPhotoSteps

SpecPhotos == Init /\ [][NextPhotos]_vars

\* the clients create and delete ingredients
NextIngredients ==
  \/ Received
  \/ PostIngredientSteps(NameInputs, QuantityInputs, UnitInputs)
  \/ DeleteIngredientSteps

SpecIngredients == Init /\ [][NextIngredients]_vars

\* the clients create and delete instructions
NextInstructions ==
  \/ Received
  \/ PostInstructionSteps(TextInputs)
  \/ DeleteInstructionSteps

SpecInstructions == Init /\ [][NextInstructions]_vars

\* the clients create recipes with ingredients and instructions, delete
\* recipes and list what a recipe owns, all with well-formed bodies
NextCascade ==
  \/ Received
  \/ PostRecipeSteps(OneTitle)
  \/ DeleteRecipeSteps
  \/ PostIngredientSteps(OneName, OneQuantity, OneUnit)
  \/ PostInstructionSteps(OneText)
  \/ GetIngredientsSteps
  \/ GetInstructionsSteps

SpecCascade == Init /\ [][NextCascade]_vars

\* a store the server reaches: recipe 1 with one ingredient and two instructions
InitStocked ==
  /\ recipes = {[id |-> 1, title |-> <<"b">>, photo |-> NoPhoto, is_favorite |-> 0,
                 created_at |-> 1, updated_at |-> 1]}
  /\ recipeSeq = 1
  /\ ingredients = {[id |-> 1, recipe_id |-> 1, name |-> <<"a">>, quantity |-> Num(1),
                     unit |-> <<"b">>]}
  /\ ingredientSeq = 1
  /\ instructions = {[id |-> i, recipe_id |-> 1, step_number |-> i, text |-> <<"a">>] :
                       i \in 1..2}
  /\ instructionSeq = 2
  /\ uploads = {}
  /\ clock = 1
  /\ inflight = [s \in Slots |-> Idle]
  /\ issued = {1}
  /\ lastToggle = [r \in RecipeIds |-> "none"]
  /\ run = [r \in RecipeIds |-> IF r = 1 THEN 2 ELSE 0]
  /\ overlap = [s \in Slots |-> FALSE]

\* on that store, the clients use every route that changes a row by its id
NextMutations ==
  \/ Received
  \/ PutRecipeSteps({Str(<<" ", "a", " ">>)})
  \/ PatchFavoriteSteps
  \/ DeleteRecipeSteps
  \/ DeleteIngredientSteps
  \/ DeleteInstructionSteps

SpecMutations == InitStocked /\ [][NextMutations]_vars

\* the clients use every route that writes a recipe row
NextTitles ==
  \/ Received
  \/ PostRecipeSteps(TitleInputs)
  \/ PutRecipeSteps(TitleInputs)
  \/ PatchFavoriteSteps
  \/ DeleteRecipeSteps
  \/ PostPhotoSteps

SpecTitles == Init /\ [][NextTitles]_vars

\* --------------------------------------------------------- recipe properties

\* a body field that is missing, empty or whitespace-only
Blank(v) ==
  \/ v.t \in {"undefined", "null"}
  \/ v.t = "string" /\ \A i \in 1..Len(v.s) : IsWhiteSpace(v.s[i])

\* t is s without the whitespace at its two ends
IsTrimOf(t, s) ==
  /\ t # <<>>
  /\ ~IsWhiteSpace(t[1])
  /\ ~IsWhiteSpace(t[Len(t)])
  /\ \E i, j \in 1..Len(s) :
       /\ t = SubSeq(s, i, j)
       /\ \A k \in 1..Len(s) : k < i \/ k > j => IsWhiteSpace(s[k])

Answered(s, kind, status) ==
  /\ inflight'[s].kind = kind
  /\ inflight'[s].pc = "sent"
  /\ inflight'[s].status = status

\* the step of POST /recipes that answers or queues the insert
PostRecipeEitherWay ==
  \A s \in Slots, title \in TitleInputs :
    PostRecipe(s, title) =>
      \/ /\ Blank(title)
         /\ Answered(s, "postRecipe", 400)
         /\ UNCHANGED tables
      \/ /\ ~Blank(title)
         /\ At(s, "postRecipe", "run")'
         /\ IsTrimOf(inflight'[s].title, title.s)

\* the insert adds one row, with the title queued and an id never issued
PostRecipeAddsOne ==
  \A s \in Slots :
    PostRecipeRun(s) =>
      \E row \in recipes' :
        /\ recipes' = recipes \cup {row}
        /\ row \notin recipes
        /\ row.title = inflight[s].title
        /\ row.id > 0
        /\ row.id \notin issued

\* C4: every POST /recipes request either has a missing, empty or
\* whitespace-only title and is answered 400 without adding a row, or adds
\* exactly one recipe row whose title is the trimmed input and whose id is a
\* positive integer never issued to an earlier recipe, deleted ones included.
C4_PostRecipeEitherWay == [][PostRecipeEitherWay /\ PostRecipeAddsOne]_vars

\* C3: whatever creates, title updates, favorite toggles and deletes came
\* before, GET /recipes/favorites returns exactly the existing recipes whose
\* latest favorite toggle set the flag, ordered by updated_at descending.
FavoritesListed ==
  \A s \in Slots :
    GetFavoritesAll(s) =>
      LET rows == inflight'[s].rows IN
        /\ {rows[i].id : i \in DOMAIN rows} =
             {r.id : r \in {x \in recipes : lastToggle[x.id] = "on"}}
        /\ \A i \in DOMAIN rows : rows[i] \in recipes
        /\ \A i, j \in DOMAIN rows : i # j => rows[i].id # rows[j].id
        /\ \A i, j \in DOMAIN rows : i < j => rows[i].updated_at >= rows[j].updated_at

C3_FavoritesListed == [][FavoritesListed]_vars

\* the listing was answered with the older recipe first, because it was
\* touched later
C3_Witness ==
  \E s \in Slots :
    /\ inflight[s].kind = "getFavorites"
    /\ inflight[s].pc = "sent"
    /\ Len(inflight[s].body) = 2
    /\ inflight[s].body[1].id < inflight[s].body[2].id
    /\ inflight[s].body[1].updated_at > inflight[s].body[2].updated_at

\* C10: every stored recipe has a title that is non-empty and equal to its
\* own trimmed form; create recipe and update title are the only operations
\* that write title.
TitlesTrimmed == \A r \in recipes : IsTrimOf(r.title, r.title)

TitleOf(rows, id) == {r.title : r \in {x \in rows : x.id = id}}

OnlyPostAndPutWriteTitle ==
  (\E id \in RecipeIds : TitleOf(recipes', id) \notin {TitleOf(recipes, id), {}})
    => \E s \in Slots : PostRecipeRun(s) \/ PutRecipeRun(s)

C10_TitlesTrimmed == []TitlesTrimmed /\ [][OnlyPostAndPutWriteTitle]_vars

\* a recipe created from " a " was retitled "b" from the input "b"
C10_Witness ==
  \E s \in Slots, r \in recipes :
    /\ At(s, "putRecipe", "cb")
    /\ inflight[s].changes = 1
    /\ inflight[s].id = r.id
    /\ r.title = <<"b">>
    /\ r.photo # NoPhoto

\* ----------------------------------------------------- ingredient properties

IsDigit(c) == c \in {"0", "1", "2", "3", "4", "5", "6", "7", "8", "9"}

\* a quantity that is no number: it is missing, or its first character after
\* the leading whitespace is one that no numeral starts with
NotANumber(v) ==
  \/ v.t = "undefined"
  \/ /\ v.t = "string"
     /\ \E i \in 1..Len(v.s) :
          /\ \A k \in 1..(i - 1) : IsWhiteSpace(v.s[k])
          /\ ~IsWhiteSpace(v.s[i])
          /\ ~IsDigit(v.s[i])
          /\ v.s[i] \notin {"+", "-", ".", "I"}

\* c is a numeral in decimal notation: an optional sign, then digits with at
\* most one point between them
Numeral(c) ==
  LET u == IF c # <<>> /\ c[1] \in {"+", "-"} THEN Tail(c) ELSE c
  IN /\ u # <<>>
     /\ IsDigit(u[1])
     /\ IsDigit(u[Len(u)])
     /\ \A k \in 1..Len(u) : IsDigit(u[k]) \/ u[k] = "."
     /\ Cardinality({k \in 1..Len(u) : u[k] = "."}) <= 1

\* a quantity that is a number: a JSON number or null, or a numeral in decimal
\* notation with nothing but whitespace around it
ANumber(v) ==
  \/ v.t \in {"number", "null"}
  \/ /\ v.t = "string"
     /\ \E i, j \in 1..Len(v.s) :
          /\ i <= j
          /\ Numeral(SubSeq(v.s, i, j))
          /\ \A k \in 1..Len(v.s) : k < i \/ k > j => IsWhiteSpace(v.s[k])

\* a body field that holds text other than whitespace
HasText(v) == v.t = "string" /\ ~Blank(v)

Refused(s, message) ==
  /\ Answered(s, "postIngredient", 400)
  /\ inflight'[s].body = [message |-> message]

\* what the claim asks of the step that handles a request with this body
AnsweredInOrder(s, name, quantity, unit) ==
  /\ Blank(name) => Refused(s, "Ingredient name required")
  /\ HasText(name) /\ NotANumber(quantity) =>
        Refused(s, "Ingredient quantity required")
  /\ HasText(name) /\ ANumber(quantity) /\ Blank(unit) =>
        Refused(s, "Ingredient unit required")
  /\ inflight'[s].pc = "sent" => UNCHANGED tables
  /\ inflight'[s].pc # "sent" =>
        HasText(name) /\ ANumber(quantity) /\ HasText(unit)

\* Whenever a step is the handler taking a request with some body, the step
\* is as the claim asks for that body.  (The implication is written with its
\* conclusion first.)
IngredientChecksInOrder ==
  \A s \in Slots :
    IsIdle(s) /\ inflight'[s].kind = "postIngredient" =>
      \A name \in NameInputs, quantity \in QuantityInputs, unit \in UnitInputs :
        \/ AnsweredInOrder(s, name, quantity, unit)
        \/ ~\E id \in RecipeIds : PostIngredient(s, id, name, quantity, unit)

\* rows are inserted by the requests that passed the checks, and by no other step
IngredientsInsertedByRun ==
  ingredients' \ ingredients # {} => \E s \in Slots : PostIngredientRun(s)

\* C5: POST /recipes/:id/ingredients checks name, then quantity, then unit and
\* answers 400 with the message of the first check that fails: a blank name
\* reports the name error whatever the quantity, a name with a quantity that
\* is no number reports the quantity error whatever the unit, and no
\* ingredient row is inserted on a rejection.
C5_IngredientChecksInOrder ==
  [][IngredientChecksInOrder /\ IngredientsInsertedByRun]_vars

\* with an ingredient stored, one request was refused for its quantity and
\* another for its name
C5_Witness ==
  /\ ingredients # {}
  /\ \E s, o \in Slots :
       /\ inflight[s].kind = "postIngredient"
       /\ inflight[s].pc = "sent"
       /\ inflight[s].status = 400
       /\ inflight[s].body.message = "Ingredient quantity required"
       /\ inflight[o].kind = "postIngredient"
       /\ inflight[o].pc = "sent"
       /\ inflight[o].status = 400
       /\ inflight[o].body.message = "Ingredient name required"

\* ---------------------------------------------------- instruction properties

InstructionsOf(r) == {x \in instructions : x.recipe_id = r}

\* requests for recipe r that have inserted their instruction and not yet answered
Inserted(r) ==
  {s \in Slots : At(s, "postInstruction", "cb") /\ inflight[s].id = r /\ ~inflight[s].err}

\* run[r] >= 0 says: since recipe r last had no instructions, the requests
\* that create one ran one after another and none of its instructions was deleted
SerialSteps ==
  \A r \in RecipeIds :
    run[r] >= 0 =>
      LET rows == InstructionsOf(r)
          n == Cardinality(rows)
      IN /\ n = run[r] + Cardinality(Inserted(r))
         /\ {x.step_number : x \in rows} = 1..n
         /\ \A x, y \in rows : x.id < y.id => x.step_number < y.step_number

SerialResponse ==
  \A s \in Slots :
    PostInstructionCb(s) /\ run[inflight[s].id] >= 0 =>
      LET body == inflight'[s].body IN
        /\ inflight'[s].status = 200
        /\ body.step_number = run[inflight[s].id] + 1
        /\ \E x \in instructions : /\ x.id = body.id
                                   /\ x.recipe_id = inflight[s].id
                                   /\ x.step_number = body.step_number

\* C2: n create-instruction requests for a recipe without instructions, served
\* one after another with no instruction deleted in between, store the
\* step_numbers 1, 2, ..., n in request order, and each response reports the
\* step_number that was stored.
C2_SerialCreatesCount == []SerialSteps /\ [][SerialResponse]_vars

\* three creates in a row for one recipe, all answered
C2_Witness ==
  \E r \in RecipeIds :
    /\ run[r] = 3
    /\ {x.step_number : x \in InstructionsOf(r)} = {1, 2, 3}
    /\ \E s \in Slots : /\ inflight[s].kind = "postInstruction"
                        /\ inflight[s].pc = "sent"
                        /\ inflight[s].status = 200
                        /\ inflight[s].body.recipe_id = r
                        /\ inflight[s].body.step_number = 3

\* C7: DELETE /instructions/:id removes at most the one instruction with that
\* id and leaves step_number, text and recipe_id of every other instruction
\* as they were: the gap a deleted middle step leaves persists.
DeleteKeepsSiblings ==
  \A s \in Slots :
    DeleteInstructionRun(s) =>
      /\ instructions' \subseteq instructions
      /\ \A x \in instructions : x.id # inflight[s].id => x \in instructions'
      /\ Cardinality(instructions \ instructions') <= 1

C7_DeleteKeepsSiblings == [][DeleteKeepsSiblings]_vars

\* a middle step was deleted: steps 1 and 3 remain
C7_Witness ==
  \E s \in Slots, r \in RecipeIds :
    /\ At(s, "deleteInstruction", "cb")
    /\ inflight[s].changes = 1
    /\ {x.step_number : x \in InstructionsOf(r)} = {1, 3}

UniqueSteps(r) ==
  \A x, y \in InstructionsOf(r) : x.step_number = y.step_number => x.id = y.id

\* C9, as claimed: in every reachable state no two instructions of one recipe
\* have the same step_number, whatever the interleaving of the creates.
C9_UniqueStepsAlways == \A r \in RecipeIds : UniqueSteps(r)

\* the pairs of stored instructions of one recipe with the same step_number
DuplicateSteps(rows) ==
  {p \in rows \X rows : /\ p[1].id < p[2].id
                        /\ p[1].recipe_id = p[2].recipe_id
                        /\ p[1].step_number = p[2].step_number}

\* the insert of the create in slot s adds row x, and since that create read
\* the maximum another create has inserted an instruction of the same recipe
RacedInsert(s, x) ==
  /\ PostInstructionRun(s)
  /\ overlap[s]
  /\ x \notin instructions
  /\ x.recipe_id = inflight[s].id

\* a step adds a pair of equal step numbers only as a raced insert, the pair
\* being the inserted row and a row stored before
NoDuplicateWithoutRace ==
  \A p \in DuplicateSteps(instructions') \ DuplicateSteps(instructions) :
    /\ p[1] \in instructions
    /\ \E s \in Slots : RacedInsert(s, p[2])

\* C9, amended: the instructions start without two rows of one recipe having
\* the same step_number, and no step of the server adds such a pair, except
\* the insert of a create-instruction request when, between that request's
\* read of the maximum and its insert, another create-instruction request
\* inserted a row for the same recipe; the pair then is the inserted row and
\* a row stored before.  A delete never adds such a pair.
C9_NoDuplicateWithoutRace ==
  /\ \A r \in RecipeIds : UniqueSteps(r)
  /\ [][NoDuplicateWithoutRace]_vars

\* two creates for one recipe overlap: one has inserted its row, not raced,
\* while the other still holds the maximum it read before that insert; the
\* recipe has two instructions or more, their step numbers all different
C9_Witness ==
  \E r \in RecipeIds :
    /\ UniqueSteps(r)
    /\ Cardinality(InstructionsOf(r)) >= 2
    /\ \E s, o \in Slots : /\ s # o
                           /\ At(s, "postInstruction", "cb")
                           /\ ~inflight[s].err
                           /\ ~overlap[s]
                           /\ At(o, "postInstruction", "run")
                           /\ overlap[o]
                           /\ inflight[s].id = r
                           /\ inflight[o].id = r


\* ------------------------------------------------------- by-id mutations

Misses(rows, id) == \A x \in rows : x.id # id

\* the statement of a by-id mutation runs and its id matches no row
MissRun(s) ==
  \/ /\ PutRecipeRun(s) \/ PatchFavoriteRun(s) \/ DeleteRecipeRun(s)
     /\ Misses(recipes, inflight[s].id)
  \/ DeleteIngredientRun(s) /\ Misses(ingredients, inflight[s].id)
  \/ DeleteInstructionRun(s) /\ Misses(instructions, inflight[s].id)

MissIsSuccess ==
  \A s \in Slots :
    /\ MissRun(s) => UNCHANGED tables /\ inflight'[s].pc = "cb"
    /\ inflight[s].pc = "cb" /\ inflight'[s] # inflight[s] =>
         /\ inflight'[s].pc = "sent"
         /\ inflight'[s].status = 200
         /\ inflight'[s].body = [success |-> TRUE]

\* C6: a by-id mutation whose id matches no row (favorite toggle, title update
\* with a valid title, recipe delete, ingredient delete, instruction delete) is
\* answered {success: true}, not an error, and leaves the three tables as
\* they were.
C6_MissIsSuccess == [][MissIsSuccess]_vars

\* a favorite toggle and an instruction delete have both run on ids that
\* match no row, with rows in every table
C6_Witness ==
  /\ recipes # {}
  /\ ingredients # {}
  /\ instructions # {}
  /\ \E s, o \in Slots :
       /\ At(s, "patchFavorite", "cb")
       /\ inflight[s].changes = 0
       /\ At(o, "deleteInstruction", "cb")
       /\ inflight[o].changes = 0

\* ------------------------------------------------------------ cascade

\* C1: once DELETE /recipes/:id has run for recipe r, no ingredient and no
\* instruction with recipe_id = r is left, so listing what r owns returns
\* empty collections.
DeleteCascades ==
  \A s \in Slots :
    DeleteRecipeRun(s) /\ ~Misses(recipes, inflight[s].id) =>
      /\ \A x \in ingredients' : x.recipe_id # inflight[s].id
      /\ \A x \in instructions' : x.recipe_id # inflight[s].id

ListsOfDeletedAreEmpty ==
  \A s \in Slots :
    /\ GetIngredientsAll(s) /\ inflight[s].id \in issued /\ Misses(recipes, inflight[s].id)
         => inflight'[s].rows = <<>>
    /\ GetInstructionsAll(s) /\ inflight[s].id \in issued /\ Misses(recipes, inflight[s].id)
         => inflight'[s].rows = <<>>

C1_DeleteCascades == [][DeleteCascades /\ ListsOfDeletedAreEmpty]_vars

\* --------------------------------------------------------------- photos

\* C8, as claimed: whenever POST /recipes/:id/photo answers {photo: f}, a file
\* named f is in the upload store and the photo field of recipe :id is f at
\* the time of the response, for every :id and every interleaving.
PhotoSetAtResponse ==
  \A s \in Slots :
    PostPhotoCb(s) =>
      /\ inflight'[s].body.photo \in uploads'
      /\ \E r \in recipes' : r.id = inflight[s].id /\ r.photo = inflight'[s].body.photo

C8_PhotoSetAtResponse == [][PhotoSetAtResponse]_vars

\* the answer {photo: f} names a stored file
FileAtResponse ==
  \A s \in Slots :
    PostPhotoCb(s) =>
      /\ Answered(s, "postPhoto", 200)
      /\ inflight'[s].body.photo = inflight[s].filename
      /\ inflight'[s].body.photo \in uploads'

\* the UPDATE sets the photo of the recipes with the id of the request and
\* leaves every other recipe as it was: none at all when the id matches none
PhotoSetByUpdate ==
  \A s \in Slots :
    PostPhotoRun(s) =>
      /\ \A r \in recipes' : r.id = inflight[s].id => r.photo = inflight[s].filename
      /\ {r.id : r \in recipes'} = {r.id : r \in recipes}
      /\ \A r \in recipes' : r.id # inflight[s].id => r \in recipes

HasPhoto(rows, id, f) == \E r \in rows : r.id = id /\ r.photo = f

PhotoKeptUntilResponse ==
  \A s \in Slots :
    /\ At(s, "postPhoto", "cb")
    /\ HasPhoto(recipes, inflight[s].id, inflight[s].filename)
    /\ ~HasPhoto(recipes', inflight[s].id, inflight[s].filename)
    => \E o \in Slots \ {s} :
         /\ PostPhotoRun(o) \/ DeleteRecipeRun(o)
         /\ inflight[o].id = inflight[s].id

\* C8, amended: whenever POST /recipes/:id/photo answers {photo: f}, a file
\* named f is in the upload store; if recipe :id existed when the request's
\* UPDATE ran, its photo field was f right after that UPDATE, and stays f up
\* to the response unless the UPDATE of another upload to the same recipe, or
\* the deletion of the recipe, runs in between.  The UPDATE changes no other recipe, so for an :id
\* that matches no recipe no photo field is set.
C8_PhotoSetWhenUpdated ==
  [][FileAtResponse /\ PhotoSetByUpdate /\ PhotoKeptUntilResponse]_vars

\* the UPDATE of an upload has set the photo of its recipe and its answer
\* {photo: f} is due, but a later upload to the same recipe has already set
\* the photo to another file; both files are stored
C8_Witness ==
  \E s \in Slots, r \in recipes :
    /\ At(s, "postPhoto", "cb")
    /\ inflight[s].changes = 1
    /\ inflight[s].filename \in uploads
    /\ r.id = inflight[s].id
    /\ r.photo \in uploads
    /\ r.photo # inflight[s].filename

====
